---- MODULE Spec2Model ----
(***************************************************************************)
(* Chat session controller of the two React front ends                     *)
(* (src/unnamed/part_000: same-origin /api/chat; src/front/src/App.jsx:    *)
(* http://localhost:8000/api/chat).                                        *)
(*                                                                         *)
(* Strings are sequences of characters.  The fixed texts of the source     *)
(* (greeting, fallback answer, filter notice) are each one opaque          *)
(* character, so that concatenation and comparison stay exact.             *)
(*                                                                         *)
(* One action is one run of JavaScript between two suspension points       *)
(* together with the re-render React commits for the state it set: the     *)
(* synchronous part of handleSubmit, the continuation after `await fetch`, *)
(* the continuation after `await response.json()`, and the textarea's      *)
(* onChange.                                                               *)
(***************************************************************************)
EXTENDS Naturals, Sequences, FiniteSets, TLC

(* ------------------------------ bounds -------------------------------- *)
\* longest text the user types into the textarea
MaxInputLen == 2
\* accepted submissions per session explored
MaxSubmits == 2

(* ------------------------------ strings ------------------------------- *)
Whitespace == {" "}
Chars == Whitespace \cup {"a"}

RECURSIVE SeqsUpTo(_, _)
SeqsUpTo(S, n) ==
  IF n = 0 THEN {<<>>}
  ELSE LET shorter == SeqsUpTo(S, n - 1)
       IN  shorter \cup {Append(s, c) : s \in {t \in shorter : Len(t) = n - 1}, c \in S}

\* values event.target.value can take
Inputs == SeqsUpTo(Chars, MaxInputLen)

RECURSIVE TrimStart(_)
TrimStart(s) ==
  IF s # <<>> /\ Head(s) \in Whitespace THEN TrimStart(Tail(s)) ELSE s

RECURSIVE TrimEnd(_)
TrimEnd(s) ==
  IF s # <<>> /\ s[Len(s)] \in Whitespace THEN TrimEnd(SubSeq(s, 1, Len(s) - 1)) ELSE s

\* String.prototype.trimStart in its place
TrimStartOnly(s) == TrimStart(s)

\* String.prototype.trim
Trim(s) == TrimEnd(TrimStart(s))

(* --------------------------- fixed texts ------------------------------ *)
SameOrigin == "/api/chat"
Localhost == "http://localhost:8000/api/chat"
Urls == {SameOrigin, Localhost}

GreetingChat == <<"[greeting:chat]">>
GreetingFilter == <<"[greeting:filter]">>
FallbackReply == <<"[no-answer]">>
FilterNotice == <<"[filtered]">>
ErrorMessage == "send-failed"

Message(role, content) == [role |-> role, content |-> content]

initialMessages(u) ==
  IF u = SameOrigin THEN <<Message("assistant", GreetingChat)>>
  ELSE <<Message("assistant", GreetingFilter)>>

(* --------------------------- JSON values ------------------------------ *)
JUndefined == [type |-> "undefined", val |-> <<>>]
JNull == [type |-> "null", val |-> <<>>]
JTrue == [type |-> "true", val |-> <<>>]
JFalse == [type |-> "false", val |-> <<>>]
JStr(s) == [type |-> "string", val |-> s]

\* what the server may put in a reply field, and in is_safe
ReplyValues(s) == {JUndefined, JNull, JStr(s)}
SafeValues == {JUndefined, JTrue, JFalse, JStr(<<"f", "a", "l", "s", "e">>)}

DataObject(r, m, c, s) ==
  [parse |-> "object", reply |-> r, message |-> m, content |-> c, is_safe |-> s]
DataNull ==
  [parse |-> "null", reply |-> JUndefined, message |-> JUndefined,
   content |-> JUndefined, is_safe |-> JUndefined]
Unparsable ==
  [parse |-> "error", reply |-> JUndefined, message |-> JUndefined,
   content |-> JUndefined, is_safe |-> JUndefined]

\* what `await response.json()` can settle with: rejected (the body does not
\* parse), null, or an object of one of the two documented shapes
Bodies ==
  {Unparsable, DataNull}
    \cup {DataObject(r, m, JUndefined, JUndefined) :
            r \in ReplyValues(<<"h", "i">>), m \in ReplyValues(<<"y", "o">>)}
    \cup {DataObject(JUndefined, JUndefined, c, s) :
            c \in ReplyValues(<<"o", "k">>), s \in SafeValues}

\* how `await fetch(...)` can settle: rejected (network error), or fulfilled with
\* a response whose status is outside 200..299 (response.ok false) or inside it
FetchOutcomes == {"network", "status", "ok"}

\* no body has been read
NoData ==
  [parse |-> "none", reply |-> JUndefined, message |-> JUndefined,
   content |-> JUndefined, is_safe |-> JUndefined]

\* a default taken for undefined only (a === undefined ? b : a)
CoalesceUndefinedOnly(a, b) == IF a.type = "undefined" THEN b ELSE a

\* a ?? b
Coalesce(a, b) == IF a.type \in {"undefined", "null"} THEN b ELSE a

\* the two fields looked up in the other order
ReplyChatMessageFirst(data) ==
  Coalesce(Coalesce(data.message, data.reply), JStr(FallbackReply)).val

\* part_000: data?.reply ?? data?.message ?? fallback
ReplyChat(data) ==
  Coalesce(Coalesce(data.reply, data.message), JStr(FallbackReply)).val

\* the notice added whenever is_safe is falsy (!data?.is_safe)
ReplyFilterFalsy(data) ==
  Coalesce(data.content, JStr(FallbackReply)).val
    \o (IF data.is_safe.type \in {"false", "undefined", "null"} THEN FilterNotice ELSE <<>>)

\* App.jsx: (data?.content ?? fallback) + (data?.is_safe === false ? notice : '')
ReplyFilter(data) ==
  Coalesce(data.content, JStr(FallbackReply)).val
    \o (IF data.is_safe = JFalse THEN FilterNotice ELSE <<>>)

AssistantContent(u, data) ==
  IF u = SameOrigin THEN ReplyChat(data) ELSE ReplyFilter(data)

(* ------------------------------ state --------------------------------- *)
VARIABLES
  url,        \* which front end runs: the endpoint it posts to
  messages,   \* useState(initialMessages)
  input,      \* useState('')
  isLoading,  \* useState(false)
  error,      \* useState('')
  calls,      \* suspended handleSubmit invocations, oldest first
  issued,     \* number of fetch() calls made so far
  accepted,   \* number of submit events that passed the guard of handleSubmit
  succeeded,  \* number of handleSubmit invocations that reached setMessages(prev => ...)
  last        \* the event handled by the latest step

vars == <<url, messages, input, isLoading, error, calls, issued, accepted, succeeded, last>>

Event(ev, outcome, data) == [ev |-> ev, outcome |-> outcome, data |-> data]

trimmedInput == Trim(input)

Init ==
  /\ url \in Urls
  /\ messages = initialMessages(url)
  /\ input = <<>>
  /\ isLoading = FALSE
  /\ error = ""
  /\ calls = <<>>
  /\ issued = 0
  /\ accepted = 0
  /\ succeeded = 0
  /\ last = Event("init", "none", NoData)

RemoveAt(s, i) == SubSeq(s, 1, i - 1) \o SubSeq(s, i + 1, Len(s))

(* ----------------------------- actions -------------------------------- *)
\* an onChange that also hides the error
SetInputClearsError(value) ==
  /\ input' = value
  /\ error' = ""
  /\ last' = Event("change", "none", NoData)
  /\ UNCHANGED <<url, messages, isLoading, calls, issued, accepted, succeeded>>

\* onChange: setInput(event.target.value)
SetInput(value) ==
  /\ input' = value
  /\ last' = Event("change", "none", NoData)
  /\ UNCHANGED <<url, messages, isLoading, error, calls, issued, accepted, succeeded>>

\* an edit of a textarea that is never disabled
InputChangeNeverDisabled(value) == SetInput(value)

\* an edit of the textarea, which is disabled while isLoading
InputChange(value) ==
  /\ ~isLoading
  /\ SetInput(value)

\* the guard without its isLoading half
SubmitIgnoredEmptyOnly == trimmedInput = <<>>

\* the guard without its trimmedInput half
SubmitIgnoredLoadingOnly == isLoading

\* the guard of handleSubmit: true when the event is ignored
SubmitIgnored == trimmedInput = <<>> \/ isLoading

\* the new message put first
NextMessagesPrepended(msgs, text) == <<Message("user", text)>> \o msgs

\* the new message given the wrong role
NextMessagesAsAssistant(msgs, text) == Append(msgs, Message("assistant", text))

\* [...messages, { role: 'user', content: trimmedInput }]
NextMessages(msgs, text) == Append(msgs, Message("user", text))

\* the body built from `messages`, the transcript before the append
RequestBodyStale(nextMessages) ==
  [messages |-> [k \in 1..(Len(nextMessages) - 1) |->
                   Message(nextMessages[k].role, nextMessages[k].content)]]

\* JSON.stringify({ messages: nextMessages }): the messages, role and content each
RequestBody(nextMessages) ==
  [messages |-> [k \in 1..Len(nextMessages) |->
                   Message(nextMessages[k].role, nextMessages[k].content)]]

\* onSubmit of the form: handleSubmit up to `await fetch(...)`
HandleSubmit ==
  /\ SubmitIgnored \/ issued < MaxSubmits
  /\ IF SubmitIgnored
     THEN /\ last' = Event("submit", "ignored", NoData)
          /\ UNCHANGED <<url, messages, input, isLoading, error, calls, issued, accepted, succeeded>>
     ELSE LET nextMessages == NextMessages(messages, trimmedInput)
          IN  /\ accepted' = accepted + 1
              /\ messages' = nextMessages
              /\ input' = <<>>
              /\ error' = ""
              /\ isLoading' = TRUE
              /\ calls' = Append(calls,
                   [pc |-> "fetch",
                    messages |-> messages,
                    trimmedInput |-> trimmedInput,
                    url |-> url,
                    body |-> RequestBody(nextMessages)])
              /\ issued' = issued + 1
              /\ last' = Event("submit", "accepted", NoData)
              /\ UNCHANGED <<url, succeeded>>

\* the catch block without setError
CatchSilent(i) ==
  /\ isLoading' = FALSE
  /\ calls' = RemoveAt(calls, i)
  /\ UNCHANGED <<url, messages, input, error, issued, accepted, succeeded>>

\* the catch block without the finally block
CatchNoFinally(i) ==
  /\ error' = ErrorMessage
  /\ calls' = RemoveAt(calls, i)
  /\ UNCHANGED <<url, messages, input, isLoading, issued, accepted, succeeded>>

\* a catch block that sends the request again
CatchRetries(i) ==
  /\ calls' = [calls EXCEPT ![i].pc = "fetch"]
  /\ issued' = issued + 1
  /\ UNCHANGED <<url, messages, input, isLoading, error, accepted, succeeded>>

\* a catch block that puts the text back into the textarea
CatchRestoresInput(i) ==
  /\ error' = ErrorMessage
  /\ isLoading' = FALSE
  /\ input' = calls[i].trimmedInput
  /\ calls' = RemoveAt(calls, i)
  /\ UNCHANGED <<url, messages, issued, accepted, succeeded>>

\* catch + finally: setError(...), setIsLoading(false)
Catch(i) ==
  /\ error' = ErrorMessage
  /\ isLoading' = FALSE
  /\ calls' = RemoveAt(calls, i)
  /\ UNCHANGED <<url, messages, input, issued, accepted, succeeded>>

\* the reply put in place of the last message
AddAssistantReplacingLast(prev, content) ==
  Append(SubSeq(prev, 1, Len(prev) - 1), Message("assistant", content))

\* the reply put first
AddAssistantPrepended(prev, content) == <<Message("assistant", content)>> \o prev

\* setMessages((prev) => [...prev, { role: 'assistant', content }])
AddAssistant(prev, content) == Append(prev, Message("assistant", content))

\* the continuation without `if (!response.ok) throw`
FetchResolveIgnoresStatus(i, r) ==
  /\ calls[i].pc = "fetch"
  /\ IF r = "network"
     THEN /\ Catch(i)
          /\ last' = Event("fetch", "network", NoData)
     ELSE /\ calls' = [calls EXCEPT ![i].pc = "json"]
          /\ last' = Event("fetch", r, NoData)
          /\ UNCHANGED <<url, messages, input, isLoading, error, issued, accepted, succeeded>>

\* `await fetch(...)` settles for call i; the handler runs to its next await
FetchResolve(i, r) ==
  /\ calls[i].pc = "fetch"
  /\ IF r = "network"
     THEN /\ Catch(i)
          /\ last' = Event("fetch", "network", NoData)
     ELSE IF r = "status"
     THEN /\ Catch(i)
          /\ last' = Event("fetch", "status", NoData)
     ELSE /\ calls' = [calls EXCEPT ![i].pc = "json"]
          /\ last' = Event("fetch", "ok", NoData)
          /\ UNCHANGED <<url, messages, input, isLoading, error, issued, accepted, succeeded>>

\* `await response.json()` settles for call i; the handler runs to its end
JsonResolve(i, data) ==
  /\ calls[i].pc = "json"
  /\ IF data.parse = "error"
     THEN /\ Catch(i)
          /\ last' = Event("json", "parse", data)
     ELSE /\ messages' = AddAssistant(messages, AssistantContent(calls[i].url, data))
          /\ isLoading' = FALSE
          /\ calls' = RemoveAt(calls, i)
          /\ succeeded' = succeeded + 1
          /\ last' = Event("json", "success", data)
          /\ UNCHANGED <<url, input, error, issued, accepted>>

Next ==
  \/ \E value \in Inputs : InputChange(value)
  \/ HandleSubmit
  \/ \E i \in 1..Len(calls), r \in FetchOutcomes : FetchResolve(i, r)
  \/ \E i \in 1..Len(calls), data \in Bodies : JsonResolve(i, data)

Spec == Init /\ [][Next]_vars

\* every issued request eventually settles, and so does the reading of its body
FairSpec ==
  /\ Spec
  /\ WF_vars(\E i \in 1..Len(calls), r \in FetchOutcomes : FetchResolve(i, r))
  /\ WF_vars(\E i \in 1..Len(calls), data \in Bodies : JsonResolve(i, data))

\* The same controller when change events reach onChange whatever the textarea's
\* `disabled` attribute says (events dispatched by script): the handlers alone.
HandlerNext ==
  \/ Next
  \/ \E value \in Inputs : isLoading /\ SetInput(value)

HandlerSpec == Init /\ [][HandlerNext]_vars

(* ------------------------------ claims ------------------------------- *)
UserMessage(text) == [role |-> "user", content |-> text]

SubmitStep == last'.ev = "submit"
ControllerUnchanged == UNCHANGED <<url, messages, input, isLoading, error, calls, issued, accepted, succeeded>>

(* C1: single-flight.  In every reachable state at most one request is      *)
(* outstanding and isLoading is true exactly when one is; and no submit     *)
(* event is accepted (none issues a request) while a request is             *)
(* outstanding, whatever edits, submits and resolutions interleave.         *)
SingleFlightState == Len(calls) <= 1 /\ (isLoading <=> Len(calls) = 1)
C1_SingleFlight ==
  /\ []SingleFlightState
  /\ [][(calls # <<>> /\ SubmitStep) =>
          (last'.outcome = "ignored" /\ issued' = issued /\ calls' = calls)]_vars

\* a submit with text in the buffer was refused while the body of the second
\* request was being read
C1_Witness ==
  /\ last.ev = "submit" /\ last.outcome = "ignored"
  /\ Len(calls) = 1 /\ calls[1].pc = "json"
  /\ Trim(input) # <<>>
  /\ issued = 2

(* C2: a submit event arriving while isLoading is a no-op for any input     *)
(* text: transcript, status, error state and input buffer stay as they are  *)
(* and no request is issued.                                                *)
C2_SubmitWhileLoadingNoOp ==
  [][(isLoading /\ SubmitStep) => (ControllerUnchanged /\ last'.outcome = "ignored")]_vars

\* ignored while loading, with text in the buffer that would otherwise be sent
C2_Witness ==
  /\ last.ev = "submit" /\ last.outcome = "ignored"
  /\ isLoading
  /\ Trim(input) # <<>> /\ Trim(input) # input

(* C3: a submit event whose buffer is empty or only whitespace changes      *)
(* neither transcript nor status, issues no request and leaves the error    *)
(* state as it was.                                                         *)
C3_EmptySubmitNoOp ==
  [][(Trim(input) = <<>> /\ SubmitStep) =>
       (ControllerUnchanged /\ last'.outcome = "ignored")]_vars

\* a whitespace-only buffer was submitted while idle with an error showing
C3_Witness ==
  /\ last.ev = "submit" /\ last.outcome = "ignored"
  /\ ~isLoading
  /\ input # <<>> /\ Trim(input) = <<>>
  /\ error # ""

(* C4: a submit event with non-empty trimmed text while idle appends        *)
(* exactly the message {user, trimmed text} at the end of the transcript,   *)
(* empties the buffer, empties the error state, sets isLoading and issues   *)
(* exactly one request.                                                     *)
C4_AcceptedSubmit ==
  [][(Trim(input) # <<>> /\ ~isLoading /\ SubmitStep) =>
       /\ last'.outcome = "accepted"
       /\ messages' = Append(messages, UserMessage(Trim(input)))
       /\ input' = <<>>
       /\ error' = ""
       /\ isLoading' = TRUE
       /\ issued' = issued + 1
       /\ Len(calls') = Len(calls) + 1
       /\ SubSeq(calls', 1, Len(calls)) = calls
       /\ calls'[Len(calls')].pc = "fetch"]_vars

\* the second submission, accepted after the first one failed
C4_Witness ==
  /\ last.ev = "submit" /\ last.outcome = "accepted"
  /\ Len(messages) = 3
  /\ messages[2].role = "user"
  /\ messages[3] = UserMessage(<<"a">>)
  /\ issued = 2

(* C5: the body of every outstanding request holds the transcript from      *)
(* before the submission followed by the new user message, and equals the   *)
(* controller's transcript as long as the request is outstanding.           *)
C5_BodyIsFullTranscript ==
  \A i \in 1..Len(calls) :
    /\ calls[i].body.messages =
         Append(calls[i].messages, UserMessage(calls[i].trimmedInput))
    /\ calls[i].body.messages = messages
    /\ calls[i].body.messages[1] = initialMessages(url)[1]

\* the body of the second request carries the greeting, the user message of the
\* failed first submission and the new user message
C5_Witness ==
  /\ Len(calls) = 1 /\ calls[1].pc = "json"
  /\ Len(calls[1].body.messages) = 3
  /\ calls[1].body.messages[2].role = "user"
  /\ calls[1].body.messages[3].role = "user"

ResolvedOk == last'.ev = "json" /\ last'.outcome = "success"
ResolvedFailed == last'.outcome \in {"network", "status", "parse"}
BeforeSubmission(c) == c.messages

(* C6: when the outstanding request resolves with a 2xx response whose      *)
(* body parses, one assistant message is appended after the user message    *)
(* of that submission and isLoading returns to false: the transcript is the *)
(* one from before the submission plus two messages, user then assistant,   *)
(* and the error state is still empty.                                      *)
C6_SuccessAddsTwo ==
  [][ResolvedOk =>
       /\ Len(calls) = 1
       /\ Len(messages') = Len(BeforeSubmission(calls[1])) + 2
       /\ SubSeq(messages', 1, Len(messages') - 1) =
            Append(BeforeSubmission(calls[1]), UserMessage(calls[1].trimmedInput))
       /\ messages'[Len(messages')].role = "assistant"
       /\ isLoading' = FALSE
       /\ calls' = <<>>
       /\ error' = ""]_vars

\* the second submission succeeded after the first one failed
C6_Witness ==
  /\ last.ev = "json" /\ last.outcome = "success"
  /\ Len(messages) = 4
  /\ messages[2].role = "user" /\ messages[3].role = "user"
  /\ messages[4].role = "assistant"
  /\ ~isLoading /\ error = ""

(* C7: when the outstanding request fails (network error, non-2xx status,   *)
(* body that does not parse), isLoading returns to false, the error state   *)
(* becomes the fixed non-empty message and the transcript is the one from   *)
(* before the submission plus the one user message.                         *)
C7_FailureAddsOne ==
  [][ResolvedFailed =>
       /\ Len(calls) = 1
       /\ messages' = Append(BeforeSubmission(calls[1]), UserMessage(calls[1].trimmedInput))
       /\ isLoading' = FALSE
       /\ calls' = <<>>
       /\ error' = ErrorMessage
       /\ error' # ""]_vars

\* the body of the second response did not parse, after a first success
C7_Witness ==
  /\ last.ev = "json" /\ last.outcome = "parse"
  /\ Len(messages) = 4
  /\ messages[3].role = "assistant" /\ messages[4].role = "user"
  /\ ~isLoading /\ error = ErrorMessage

IsPrefix(s, t) == Len(s) <= Len(t) /\ SubSeq(t, 1, Len(s)) = s

(* C8: the transcript is append-only: in every step the previous transcript *)
(* is a prefix of the next one, and its first element is always the seeded  *)
(* assistant greeting.                                                      *)
C8_AppendOnly ==
  /\ [](Len(messages) >= 1 /\ messages[1] = initialMessages(url)[1])
  /\ [][IsPrefix(messages, messages')]_vars

\* two full cycles: greeting, user, assistant, user, assistant
C8_Witness ==
  /\ Len(messages) = 5
  /\ messages[3].role = "assistant" /\ messages[5].role = "assistant"
  /\ messages[3].content # messages[5].content

(* C9: the error state is empty initially, becomes non-empty only when a    *)
(* request fails, is left unchanged by input edits and ignored submits (and *)
(* by successful resolutions), and is emptied by an accepted submit and by  *)
(* nothing else.                                                            *)
C9_ErrorLifecycle ==
  /\ error = ""
  /\ [][/\ (error' # error /\ error' # "") => (ResolvedFailed /\ error' = ErrorMessage)
        /\ (error' # error /\ error' = "") => (SubmitStep /\ last'.outcome = "accepted")
        /\ ResolvedFailed => error' = ErrorMessage
        /\ (SubmitStep /\ last'.outcome = "accepted") => error' = ""
        /\ (last'.ev = "change" \/ (SubmitStep /\ last'.outcome = "ignored")) =>
             error' = error]_vars

\* the error of a failed request is still shown after an edit and an ignored submit
C9_Witness ==
  /\ error = ErrorMessage
  /\ last.ev = "submit" /\ last.outcome = "ignored"
  /\ input # <<>>

(* C10: a failure is not fatal.  Right after a failed request the           *)
(* controller is idle and the textarea takes any text; in every idle state  *)
(* a submit with non-empty trimmed text is accepted and issues a request    *)
(* (up to the number of submissions explored); and, every issued request    *)
(* eventually settling, every state with isLoading is followed by one       *)
(* without.                                                                 *)
AfterFailure == last.outcome \in {"network", "status", "parse"}
C10_FailureNotFatal ==
  /\ [](AfterFailure =>
          /\ ~isLoading
          /\ \A value \in Inputs : ENABLED InputChange(value))
  /\ []((~isLoading /\ Trim(input) # <<>> /\ issued < MaxSubmits) =>
          ENABLED (HandleSubmit /\ last'.outcome = "accepted" /\ issued' = issued + 1))
  /\ (isLoading ~> ~isLoading)

\* a submission was accepted after the previous one failed, and failed too
C10_Witness ==
  /\ AfterFailure
  /\ issued = 2
  /\ Len(messages) = 3
  /\ messages[2].role = "user" /\ messages[3].role = "user"

Succeeded == last.ev = "json" /\ last.outcome = "success"
LastMessage == messages[Len(messages)]
Absent(v) == v.type \in {"undefined", "null"}

(* C11: in the same-origin front end the content of the assistant message   *)
(* appended for a response is its `reply` field when that is present,       *)
(* otherwise its `message` field; with both present `reply` wins; for       *)
(* { "reply": "hi" } the content is exactly "hi".                           *)
C11_ReplyThenMessage ==
  (Succeeded /\ url = SameOrigin) =>
    /\ LastMessage.role = "assistant"
    /\ ~Absent(last.data.reply) => LastMessage.content = last.data.reply.val
    /\ (Absent(last.data.reply) /\ ~Absent(last.data.message)) =>
         LastMessage.content = last.data.message.val
    /\ last.data = DataObject(JStr(<<"h", "i">>), JUndefined, JUndefined, JUndefined) =>
         LastMessage.content = <<"h", "i">>

\* both fields present: the reply is shown, the message is not
C11_Witness ==
  /\ Succeeded /\ url = SameOrigin
  /\ last.data.reply = JStr(<<"h", "i">>)
  /\ last.data.message = JStr(<<"y", "o">>)
  /\ LastMessage = [role |-> "assistant", content |-> <<"h", "i">>]

(* C12: in the localhost:8000 front end the content of the appended         *)
(* assistant message is the `content` field followed by the filter notice   *)
(* exactly when `is_safe` is the boolean false, and the `content` field     *)
(* alone when `is_safe` is true, absent or anything else; for               *)
(* { "content": "ok", "is_safe": false } it is "ok" plus the notice.        *)
C12_NoticeOnlyWhenUnsafe ==
  (Succeeded /\ url = Localhost /\ ~Absent(last.data.content)) =>
    /\ LastMessage.role = "assistant"
    /\ last.data.is_safe.type = "false" =>
         LastMessage.content = last.data.content.val \o FilterNotice
    /\ last.data.is_safe.type # "false" =>
         LastMessage.content = last.data.content.val
    /\ last.data = DataObject(JUndefined, JUndefined, JStr(<<"o", "k">>), JFalse) =>
         LastMessage.content = <<"o", "k", "[filtered]">>

\* { "content": "ok", "is_safe": false } was answered
C12_Witness ==
  /\ Succeeded /\ url = Localhost
  /\ last.data.content = JStr(<<"o", "k">>)
  /\ last.data.is_safe = JFalse
  /\ LastMessage.content = <<"o", "k">> \o FilterNotice

(* C13: a response with a non-2xx status takes the error path: the handler  *)
(* ends there without reading the body, no assistant message is appended    *)
(* and the error state is set.                                              *)
C13_StatusFailureSkipsBody ==
  [][(last'.ev = "fetch" /\ last'.outcome = "status") =>
       /\ messages' = messages
       /\ succeeded' = succeeded
       /\ calls' = <<>>
       /\ isLoading' = FALSE
       /\ error' = ErrorMessage
       /\ last'.data = NoData]_vars

\* the second request was answered with a non-2xx status
C13_Witness ==
  /\ last.ev = "fetch" /\ last.outcome = "status"
  /\ issued = 2
  /\ LastMessage.role = "user"
  /\ error = ErrorMessage /\ ~isLoading /\ calls = <<>>

(* C14: no retries and no other writer: the number of requests issued      *)
(* equals the number of accepted submissions, and the transcript length is  *)
(* 1 (the greeting) plus the accepted submissions plus the requests that    *)
(* resolved successfully.                                                   *)
C14_CountsAgree ==
  /\ issued = accepted
  /\ Len(messages) = 1 + accepted + succeeded
  /\ succeeded + Len(calls) <= accepted

\* one submission failed and one succeeded
C14_Witness ==
  /\ accepted = 2 /\ succeeded = 1
  /\ calls = <<>> /\ ~isLoading
  /\ Len(messages) = 4

(* C15: a 2xx response whose parsed body has no recognized reply field      *)
(* (body null; reply and message both null or absent in the same-origin     *)
(* front end; content null or absent in the other) takes the success path:  *)
(* an assistant message with the fallback text is appended (followed by the *)
(* filter notice in the localhost front end when is_safe is false),         *)
(* isLoading is false and the error state is empty.                         *)
NoReplyField ==
  IF url = SameOrigin
    THEN Absent(last.data.reply) /\ Absent(last.data.message)
    ELSE Absent(last.data.content)
C15_FallbackIsSuccess ==
  (last.ev = "json" /\ last.data.parse \in {"null", "object"} /\ NoReplyField) =>
    /\ last.outcome = "success"
    /\ LastMessage.role = "assistant"
    /\ LastMessage.content =
         FallbackReply \o (IF url = Localhost /\ last.data.is_safe.type = "false"
                             THEN FilterNotice ELSE <<>>)
    /\ ~isLoading
    /\ error = ""

\* { "content": null, "is_safe": false } was answered with fallback and notice
C15_Witness ==
  /\ last.ev = "json" /\ url = Localhost
  /\ last.data.parse = "object"
  /\ last.data.content = JNull /\ last.data.is_safe = JFalse
  /\ LastMessage.content = <<"[no-answer]", "[filtered]">>
  /\ error = ""

UserPairs ==
  {k \in 2..Len(messages) : messages[k - 1].role = "user" /\ messages[k].role = "user"}
\* submissions whose request has failed
Failures == accepted - succeeded - Len(calls)

(* C16: every assistant message other than the greeting is immediately      *)
(* preceded by a user message, so no two assistant messages are adjacent;   *)
(* two user messages are adjacent exactly where a submission failed and a   *)
(* later one was accepted: there are as many such pairs as failed           *)
(* submissions that a later accepted submission followed.                   *)
C16_AssistantFollowsUser ==
  /\ \A k \in 2..Len(messages) :
       messages[k].role = "assistant" => messages[k - 1].role = "user"
  /\ Cardinality(UserPairs) =
       Failures - (IF ~isLoading /\ LastMessage.role = "user" THEN 1 ELSE 0)

\* a failed submission followed by a successful one: user, user, assistant
C16_Witness ==
  /\ Len(messages) = 4
  /\ UserPairs = {3}
  /\ messages[4].role = "assistant"
  /\ Failures = 1

(* C17: while isLoading the error state is empty, the input buffer is empty *)
(* (the textarea is disabled) and the last transcript message is the user   *)
(* message of the outstanding request; and whenever the error state is      *)
(* non-empty, isLoading is false and the last transcript message is a user  *)
(* message.                                                                 *)
C17_LoadingAndErrorShapes ==
  /\ isLoading =>
       /\ error = ""
       /\ input = <<>>
       /\ Len(calls) = 1
       /\ LastMessage = UserMessage(calls[1].trimmedInput)
       /\ Len(messages) = Len(calls[1].messages) + 1
  /\ error # "" =>
       /\ ~isLoading
       /\ LastMessage.role = "user"

\* loading again after a failure, whose error the new submission cleared
C17_Witness ==
  /\ isLoading /\ error = "" /\ input = <<>>
  /\ Len(messages) = 3
  /\ messages[2].role = "user"
  /\ last.ev = "submit" /\ last.outcome = "ignored"

\* non-empty, and neither its first nor its last character is whitespace
IsTrimmedText(t) == t # <<>> /\ t[1] \notin Whitespace /\ t[Len(t)] \notin Whitespace
UserTextsTrimmed(msgs) ==
  \A k \in 1..Len(msgs) : msgs[k].role = "user" => IsTrimmedText(msgs[k].content)
AcceptedStep == SubmitStep /\ last'.outcome = "accepted"

(* C18: every user message in the transcript, and in the body of every      *)
(* request, has non-empty content without leading or trailing whitespace,   *)
(* and the content stored and sent by an accepted submit is the text of the *)
(* buffer with the whitespace at its two ends removed, interior whitespace  *)
(* kept.                                                                    *)
C18_UserTextIsTrimmed ==
  /\ [](/\ UserTextsTrimmed(messages)
        /\ \A i \in 1..Len(calls) : UserTextsTrimmed(calls[i].body.messages))
  /\ [][AcceptedStep =>
          LET stored == messages'[Len(messages')].content
              sent == calls'[Len(calls')].body.messages
          IN  /\ IsTrimmedText(stored)
              /\ \E a, b \in Inputs : input = a \o stored \o b
                                        /\ Trim(a) = <<>> /\ Trim(b) = <<>>
              /\ sent[Len(sent)].content = stored]_vars

\* two user messages of different texts stored, the second one being sent
C18_Witness ==
  /\ Len(messages) = 3 /\ Len(calls) = 1
  /\ messages[2].role = "user" /\ messages[3].role = "user"
  /\ messages[2].content # messages[3].content
  /\ calls[1].body.messages[3].content = <<"a", "a">>

(* C19: a failure does not put the submitted text back into the buffer:     *)
(* right after a failed request the buffer is empty and the text is the     *)
(* last, user, message of the transcript; a submit at that point is ignored *)
(* as empty input; and the next accepted submission sends the failed user   *)
(* message again, in the transcript of its request body.                    *)
C19_FailureKeepsBufferEmpty ==
  /\ [](AfterFailure =>
          /\ input = <<>>
          /\ LastMessage.role = "user"
          /\ LastMessage.content # <<>>)
  /\ [][(AfterFailure /\ SubmitStep) =>
          (last'.outcome = "ignored" /\ ControllerUnchanged)]_vars
  /\ [][(error # "" /\ AcceptedStep) =>
          LET sent == calls'[Len(calls')].body.messages
          IN  /\ Len(sent) = Len(messages) + 1
              /\ SubSeq(sent, 1, Len(messages)) = messages
              /\ sent[Len(messages)].role = "user"
              /\ sent[Len(sent)].role = "user"]_vars

\* the submit button was pressed again right after the first request failed
C19_Witness ==
  /\ last.ev = "submit" /\ last.outcome = "ignored"
  /\ error = ErrorMessage /\ ~isLoading
  /\ input = <<>>
  /\ accepted = 1 /\ Len(messages) = 2

====
